---- MODULE Spec2Model ----
(***************************************************************************)
(* Model of models/video_vae_v3/modules/causal_inflation_lib.py:           *)
(* InflatedCausalConv3d (memory-bounded splitting, causal memory state    *)
(* machine, sequence-parallel boundary exchange) and the 2D->3D weight    *)
(* inflation applied while loading a state dict.                          *)
(*                                                                         *)
(* Tensors.  A 5-D tensor (batch, channel, t, h, w) is modelled by the     *)
(* coordinates it holds along t, h and w: a triple <<tseq, hseq, wseq>> of *)
(* sequences of coordinate ids.  Every slicing, concatenation and padding  *)
(* in the code acts along one axis on whole hyperplanes, so this product   *)
(* form is closed under them.  Id 0 is a zero-padded hyperplane; ids > 0   *)
(* name frames / rows / columns of the data.  Batch and channel are never  *)
(* sliced and are left out.  An output element is modelled by the input    *)
(* window it reads, one window per axis.                                   *)
(***************************************************************************)
EXTENDS Integers, Sequences, FiniteSets, TLC

VARIABLES
    layer,       \* the InflatedCausalConv3d under study
    topology,    \* the sequence-parallel topology the process runs in
    call,        \* the last operation made on the layer and what it did
    x,           \* SpecConv: the input of memory_limit_conv
    prev_cache,  \* SpecConv: its prev_cache
    result,      \* SpecConv: what the limited call yielded
    unsplit,     \* SpecConv: what the unlimited call yielded
    stream,      \* SpecStream: the sequence, its chunks and the outputs so far
    ranks,       \* SpecDist: each rank's layer, input and position in forward
    state_dict,  \* SpecLoad: the state dict being loaded
    pc           \* the next step of the caller

vars == <<layer, topology, call, x, prev_cache, result, unsplit, stream, ranks,
          state_dict, pc>>

---------------------------------------------------------------------------
(* Bounds of the model.                                                    *)
MaxT == 2
MaxH == 4
MaxW == 3
MaxLimit == 9
MaxFrames == 3
FrameH == 4
FiniteLimit == 12
MaxMemory == 2
MaxSeq == 5
MaxShard == 2
MaxChannels == 2
MaxDepth == 2
MaxSide == 2
MaxClip == 3
MaxGroups == 6
MaxPerGroup == 2
MaxOccupy == 2

(* Geometries (kernel, stride, padding) the layer is built with.           *)
Kernels == 1..3
Strides == 1..2
Pads == 0..1

---------------------------------------------------------------------------
(* Python / torch primitives.                                              *)

\* Python's None.
None == <<>>

\* None where the other values are strings: get_sequence_parallel_group()
\* without a group, and memory_device = None.
NoGroupHandle == "none"

NoDevice == "none"

\* float("inf"), the default memory limit.
INF == -1

isinf(v) == v = INF

\* x.ndim of the 5-D input.
ndim == 5

Max(a, b) == IF a >= b THEN a ELSE b

Min(a, b) == IF a <= b THEN a ELSE b

\* math.ceil(a / b) for a >= 0, b > 0.
ceil_div(a, b) == (a + b - 1) \div b

RECURSIVE Sum(_)
Sum(s) == IF s = <<>> THEN 0 ELSE Head(s) + Sum(Tail(s))

Zeros(n) == [i \in 1..n |-> 0]

\* seq[-n:] for n # 0: the last n items for n > 0, seq[|n|:] for n < 0.
tail_slice(seq, n) ==
    IF n > 0
    THEN SubSeq(seq, Max(1, Len(seq) - n + 1), Len(seq))
    ELSE SubSeq(seq, Min(Len(seq), 0 - n) + 1, Len(seq))

\* x.size(d) for the axes d = 2 (t), 3 (h), 4 (w).
size(t, d) == Len(t[d - 1])

\* torch.cat([a, b], dim=d).
cat(a, b, d) ==
    << IF d = 2 THEN a[1] \o b[1] ELSE b[1],
       IF d = 3 THEN a[2] \o b[2] ELSE b[2],
       IF d = 4 THEN a[3] \o b[3] ELSE b[3] >>

\* t[..., lo:hi] along axis d (1-based, inclusive).
narrow(t, d, lo, hi) ==
    << IF d = 2 THEN SubSeq(t[1], lo, hi) ELSE t[1],
       IF d = 3 THEN SubSeq(t[2], lo, hi) ELSE t[2],
       IF d = 4 THEN SubSeq(t[3], lo, hi) ELSE t[3] >>

\* list(t.split(split_sizes, dim=d)).
split(t, split_sizes, d) ==
    [i \in 1..Len(split_sizes) |->
        LET off == Sum(SubSeq(split_sizes, 1, i - 1))
        IN  narrow(t, d, off + 1, off + split_sizes[i])]

\* t.transpose(0, d)[-n:].transpose(0, d): the trailing slice along axis d.
trailing(t, d, n) ==
    << IF d = 2 THEN tail_slice(t[1], n) ELSE t[1],
       IF d = 3 THEN tail_slice(t[2], n) ELSE t[2],
       IF d = 4 THEN tail_slice(t[3], n) ELSE t[3] >>

\* F.pad(x, padding, value=0.0); padding = (w_l, w_r, h_l, h_r, t_l, t_r).
F_pad(t, padding) ==
    << Zeros(padding[5]) \o t[1] \o Zeros(padding[6]),
       Zeros(padding[3]) \o t[2] \o Zeros(padding[4]),
       Zeros(padding[1]) \o t[3] \o Zeros(padding[2]) >>

\* The windows a convolution of kernel k and stride s reads along one axis.
Windows(seq, k, s) ==
    [i \in 1..((Len(seq) - k) \div s + 1) |->
        SubSeq(seq, (i - 1) * s + 1, (i - 1) * s + k)]

\* Conv3d.forward (super().forward): zero-pads each axis by self.padding and
\* convolves.  torch raises when a padded axis is shorter than the kernel.
\* The output is a matrix (rows along h, columns along w) whose element is
\* <<windows along t, window along h, window along w>>.
Conv3d_forward(self, t) ==
    LET p == F_pad(t, << self.padding[3], self.padding[3],
                         self.padding[2], self.padding[2],
                         self.padding[1], self.padding[1] >>)
        fits == \A i \in 1..3 : Len(p[i]) >= self.kernel_size[i]
        tw == Windows(p[1], self.kernel_size[1], self.stride[1])
        hw == Windows(p[2], self.kernel_size[2], self.stride[2])
        ww == Windows(p[3], self.kernel_size[3], self.stride[3])
    IN  [ ok |-> fits,
          out |-> IF fits
                  THEN [r \in 1..Len(hw) |-> [c \in 1..Len(ww) |-> <<tw, hw[r], ww[c]>>]]
                  ELSE <<>>,
          input |-> p ]

\* Shape (t, h, w) of an output matrix.
out_shape(o) ==
    IF o = <<>> THEN <<0, 0, 0>>
    ELSE IF o[1] = <<>> THEN <<0, Len(o), 0>>
    ELSE <<Len(o[1][1][1]), Len(o), Len(o[1])>>

RECURSIVE cat_rows(_), cat_cols(_)
cat_rows(outs) == IF outs = <<>> THEN <<>> ELSE Head(outs) \o cat_rows(Tail(outs))

cat_cols(outs) ==
    IF Len(outs) = 1 THEN outs[1]
    ELSE LET rest == cat_cols(Tail(outs))
         IN  [r \in 1..Len(outs[1]) |-> outs[1][r] \o rest[r]]

\* torch.cat(outs, d) for d = 3 (h) or 4 (w); torch raises when the sizes
\* of the other axes differ.
cat_ok(outs, d) ==
    \A i \in 1..Len(outs) :
        /\ out_shape(outs[i])[1] = out_shape(outs[1])[1]
        /\ IF d = 3 THEN out_shape(outs[i])[3] = out_shape(outs[1])[3]
                    ELSE out_shape(outs[i])[2] = out_shape(outs[1])[2]

cat_out(outs, d) == IF d = 3 THEN cat_rows(outs) ELSE cat_cols(outs)

---------------------------------------------------------------------------
(* The layer.  `self` is the record of an InflatedCausalConv3d's fields;   *)
(* kernel_size, stride and padding are triples over (t, h, w).            *)

\* InflatedCausalConv3d.__init__: the temporal padding is kept aside and
\* removed from the built-in padding; no memory, no memory limit.
new_layer(kernel_size, stride, padding, memory_device) ==
    [ kernel_size |-> kernel_size,
      stride |-> stride,
      temporal_padding |-> padding[1],
      padding |-> <<0, padding[2], padding[3]>>,
      memory |-> None,
      memory_device |-> memory_device,
      memory_limit |-> INF,
      training |-> TRUE ]

set_memory_limit(self, value) == [self EXCEPT !.memory_limit = value]

set_memory_device(self, memory_device) == [self EXCEPT !.memory_device = memory_device]

\* get_cache_size(conv_module, input_len, pad_len, dim): how many trailing
\* items of this chunk the next chunk must see so that its first window
\* starts where the unsplit convolution's next window starts: the kernel /
\* stride overlap plus the items left over after this chunk's last window.
\* dim is the 0-based axis of kernel_size / stride.
get_cache_size(conv_module, input_len, pad_len, dim) ==
    LET k == conv_module.kernel_size[dim + 1]
        s == conv_module.stride[dim + 1]
        output_len == (input_len + pad_len - k) \div s + 1
        remain_len == input_len + pad_len - ((output_len - 1) * s + k)
    IN  (k - s) + remain_len

\* Mutation of memory_occupy: the padding is left out of the estimate.
memory_occupy_unpadded(t, split_dim, padding, cache) ==
    LET ct == IF cache # None /\ split_dim - 1 = 2 THEN size(cache, 2) ELSE 0
        ch == IF cache # None /\ split_dim - 1 = 3 THEN size(cache, 3) ELSE 0
        cw == IF cache # None /\ split_dim - 1 = 4 THEN size(cache, 4) ELSE 0
    IN  (size(t, 2) + ct) * (size(t, 3) + ch) * (size(t, 4) + cw)

\* The estimated footprint: the product of the shape after concatenating
\* prev_cache and padding.  Batch, channel and element size are 1, so the
\* limit is counted in elements of one (batch, channel) plane stack.
memory_occupy(t, split_dim, padding, cache) ==
    LET ct == IF cache # None /\ split_dim - 1 = 2 THEN size(cache, 2) ELSE 0
        ch == IF cache # None /\ split_dim - 1 = 3 THEN size(cache, 3) ELSE 0
        cw == IF cache # None /\ split_dim - 1 = 4 THEN size(cache, 4) ELSE 0
    IN  (size(t, 2) + ct + padding[5] + padding[6])
      * (size(t, 3) + ch + padding[3] + padding[4])
      * (size(t, 4) + cw + padding[1] + padding[2])

\* What a call of memory_limit_conv yields: ok = it returned (no assertion,
\* no error of the primitive); out = the returned tensor; padding = the
\* layer's padding after the call; calls = the direct invocations of the
\* convolution primitive, in order, each with whether the primitive raised;
\* chunks = the chunks of every split with the padding handed down to them.
Raised(self, calls, chunks) ==
    [ok |-> FALSE, out |-> <<>>, padding |-> self.padding, calls |-> calls, chunks |-> chunks]

direct_conv(self, t, occupy, split_dim) ==
    LET r == Conv3d_forward(self, t)
    IN  [ ok |-> r.ok, out |-> r.out, padding |-> self.padding,
          calls |-> << [ input |-> r.input, occupy |-> occupy,
                         limit |-> self.memory_limit, split_dim |-> split_dim,
                         padding |-> self.padding, raised |-> ~r.ok ] >>,
          chunks |-> <<>> ]

\* Mutation of ignore_padding: no finally clause, the padding is put back
\* only when the convolution returns.
ignore_padding_no_finally(model, t, occupy, split_dim) ==
    LET orig_padding == model.padding
        r == direct_conv([model EXCEPT !.padding = <<0, 0, 0>>], t, occupy, split_dim)
    IN  IF r.ok THEN [r EXCEPT !.padding = orig_padding] ELSE r

\* ignore_padding around the manually padded call (lines 41-48, 101-102):
\* the convolution runs with model.padding = (0, 0, 0); the finally clause
\* puts the original padding back whether or not the convolution raised.
ignore_padding(model, t, occupy, split_dim) ==
    LET orig_padding == model.padding
        r == direct_conv([model EXCEPT !.padding = <<0, 0, 0>>], t, occupy, split_dim)
    IN  [r EXCEPT !.padding = orig_padding]

\* Mutation of overlap_fits: the assertions are dropped.
overlap_always_fits(cache_size, len) == TRUE

\* Lines 235, 267 and 145: the overlap must fit in the tensor it is cut from.
overlap_fits(cache_size, len) == cache_size <= len

\* Mutation of chunk_padding: every chunk is padded on both sides.
chunk_padding_every_chunk(self, padding, split_dim, idx, n) ==
    LET lpad_dim == (ndim - split_dim - 1) * 2 + 1
        rpad_dim == lpad_dim + 1
    IN  [padding EXCEPT ![lpad_dim] = self.padding[split_dim - 1],
                        ![rpad_dim] = self.padding[split_dim - 1]]

\* Lines 127-133: the padding pattern of chunk idx (1-based) of n along
\* split_dim; padding is the F.pad tuple (w, w, h, h, t, t) handed down.
chunk_padding(self, padding, split_dim, idx, n) ==
    LET lpad_dim == (ndim - split_dim - 1) * 2 + 1
        rpad_dim == lpad_dim + 1
    IN  [padding EXCEPT
           ![lpad_dim] = IF idx = 1 THEN self.padding[split_dim - 1] ELSE 0,
           ![rpad_dim] = IF idx = n THEN self.padding[split_dim - 1] ELSE 0]

RECURSIVE memory_limit_conv(_, _, _, _, _)
RECURSIVE conv_loop(_, _, _, _, _, _, _, _)

\* Lines 121-159: the loop over the chunks, from chunk idx on (1-based).
\* xs, pcs: the split input and the split prev_cache (None when absent);
\* cache: the slice handed over by the previous chunk; acc: what the
\* previous chunks produced.
conv_loop(self, xs, pcs, split_dim, padding, idx, cache, acc) ==
    IF idx > Len(xs) THEN acc
    ELSE
    LET xi == IF pcs # None THEN cat(pcs[idx], xs[idx], split_dim - 1) ELSE xs[idx]
        lpad_dim == (ndim - split_dim - 1) * 2 + 1
        rpad_dim == lpad_dim + 1
        pad == chunk_padding(self, padding, split_dim, idx, Len(xs))
        pad_len == pad[lpad_dim] + pad[rpad_dim]
        cache_len == IF cache # None THEN size(cache, split_dim) ELSE 0
        next_catch_size == get_cache_size(self, size(xi, split_dim) + cache_len,
                                          pad_len, split_dim - 2)
        chunk == [ split_dim |-> split_dim, idx |-> idx, n |-> Len(xs),
                   padding |-> pad, given |-> padding,
                   size |-> size(xi, split_dim), next_catch_size |-> next_catch_size,
                   has_cache |-> cache # None ]
        chunks == Append(acc.chunks, chunk)
    IN  IF next_catch_size # 0 /\ ~overlap_fits(next_catch_size, size(xi, split_dim))
        THEN Raised(self, acc.calls, chunks)
        ELSE
        LET next_cache == IF next_catch_size # 0
                          THEN trailing(xi, split_dim, next_catch_size)
                          ELSE None
            r == memory_limit_conv(self, xi, split_dim + 1, pad, cache)
        IN  IF ~r.ok
            THEN Raised([self EXCEPT !.padding = r.padding],
                        acc.calls \o r.calls, chunks \o r.chunks)
            ELSE conv_loop([self EXCEPT !.padding = r.padding], xs, pcs, split_dim,
                           pad, idx + 1, next_cache,
                           [ ok |-> TRUE, out |-> Append(acc.out, r.out),
                             padding |-> r.padding,
                             calls |-> acc.calls \o r.calls,
                             chunks |-> chunks \o r.chunks ])

\* InflatedCausalConv3d.memory_limit_conv.
memory_limit_conv(self, t, split_dim, padding, cache) ==
    IF isinf(self.memory_limit)
    THEN direct_conv(self, IF cache # None THEN cat(cache, t, split_dim - 1) ELSE t,
                     0, split_dim)
    ELSE
    LET occupy == memory_occupy(t, split_dim, padding, cache)
    IN  IF occupy < self.memory_limit \/ split_dim = ndim
        THEN LET xin == F_pad(IF cache # None THEN cat(cache, t, split_dim - 1) ELSE t,
                              padding)
             IN  ignore_padding(self, xin, occupy, split_dim)
        ELSE
        LET num_splits == ceil_div(occupy, self.memory_limit)
            size_per_split == size(t, split_dim) \div num_splits
            split_sizes == [i \in 1..num_splits |->
                              IF i < num_splits THEN size_per_split
                              ELSE size(t, split_dim) - (num_splits - 1) * size_per_split]
            xs == split(t, split_sizes, split_dim)
            pcs == IF cache # None THEN split(cache, split_sizes, split_dim) ELSE None
            r == conv_loop(self, xs, pcs, split_dim, padding, 1, None,
                           [ok |-> TRUE, out |-> <<>>, padding |-> self.padding,
                            calls |-> <<>>, chunks |-> <<>>])
        IN  IF ~r.ok THEN r
            ELSE IF ~cat_ok(r.out, split_dim)
            THEN Raised([self EXCEPT !.padding = r.padding], r.calls, r.chunks)
            ELSE [r EXCEPT !.out = cat_out(r.out, split_dim)]

---------------------------------------------------------------------------
(* forward and its two paths.  An input is [is_tensor, items]: one tensor  *)
(* (items has one element) or a list of tensors, the slices of one call.   *)
(* sp is the sequence-parallel topology: [group, rank, size].             *)

UNSET == "UNSET"
INITIALIZING == "INITIALIZING"
ACTIVE == "ACTIVE"
DISABLED == "DISABLED"
MemoryState == {UNSET, INITIALIZING, ACTIVE, DISABLED}

\* Line 255: tuple(x for x in reversed(self.padding) for _ in range(2)).
pad_tuple(self) ==
    << self.padding[3], self.padding[3], self.padding[2], self.padding[2],
       self.padding[1], self.padding[1] >>

\* torch.tile(tensor[:, :, :1], tile_repeat) with tile_repeat[2] = times.
tile_head(t, times) ==
    << [i \in 1..(IF t[1] = <<>> THEN 0 ELSE times) |-> t[1][1]], t[2], t[3] >>

\* extend_head(tensor, times, memory); ok = FALSE is the failed assertion.
extend_head(t, times, memory) ==
    IF memory # None THEN [ok |-> TRUE, t |-> cat(memory, t, 2)]
    ELSE IF ~(times >= 0) THEN [ok |-> FALSE, t |-> t]
    ELSE IF times = 0 THEN [ok |-> TRUE, t |-> t]
    ELSE [ok |-> TRUE, t |-> cat(tile_head(t, times), t, 2)]

\* Mutation of stores_memory: the direct path never stores its memory.
stores_memory_never(self, memory_state) == FALSE

\* Lines 191-198 and 226-228: whether this call stores a new memory.
stores_memory(self, memory_state) ==
    /\ memory_state # DISABLED
    /\ ~self.training
    /\ self.memory_device # NoDevice

\* What a forward call yields: the layer after the call and a record of
\* what the call did: out = the outputs (one per slice); calls / chunks =
\* the convolutions and splits made; slices = the steps of the slice loop;
\* sends / recvs = the point-to-point operations issued.
Outcome(self, ok, out, path, calls, chunks, slices, sends, recvs) ==
    [ self |-> self, ok |-> ok, out |-> out, path |-> path,
      calls |-> calls, chunks |-> chunks, slices |-> slices,
      sends |-> sends, recvs |-> recvs ]

\* InflatedCausalConv3d.basic_forward.
basic_forward(self, input, memory_state) ==
    LET mem_size == self.stride[1] - self.kernel_size[1]
        e == IF self.memory # None /\ memory_state = ACTIVE
             THEN extend_head(input, -1, self.memory)
             ELSE extend_head(input, self.temporal_padding * 2, None)
        memory == IF mem_size # 0 /\ memory_state # DISABLED
                  THEN trailing(e.t, 2, 0 - mem_size)
                  ELSE None
        stored == IF stores_memory(self, memory_state)
                  THEN [self EXCEPT !.memory = memory] ELSE self
        r == direct_conv(stored, e.t, 0, 2)
    IN  IF ~e.ok THEN Outcome(self, FALSE, <<>>, "basic", <<>>, <<>>, <<>>, <<>>, <<>>)
        ELSE Outcome(stored, r.ok, IF r.ok THEN <<r.out>> ELSE <<>>, "basic",
                     r.calls, <<>>, <<>>, <<>>, <<>>)

\* get_next_sequence_parallel_rank / get_prev_sequence_parallel_rank: the
\* neighbours in the chain of ranks; the chain closes from the last rank
\* to the first, which is how lines 239-251 pair their send and receive.
next_rank(sp) == (sp.rank + 1) % sp.size

prev_rank(sp) == (sp.rank + sp.size - 1) % sp.size

\* cache_send_recv, sending side: every rank but the last sends the
\* trailing cache_size frames of its input to the next rank.  None = no send.
cache_send(sp, items, cache_size) ==
    IF sp.size > 1 /\ cache_size > 0 /\ sp.rank < sp.size - 1
    THEN trailing(items[Len(items)], 2, cache_size)
    ELSE None

\* cache_send_recv, receiving side: whether this rank receives from the
\* previous rank.
cache_recv(sp, cache_size) == sp.size > 1 /\ cache_size > 0 /\ sp.rank > 0

\* cache_send_recv, the returned cache: on the first rank the stored memory
\* when there is one, else the first frame duplicated `times` times; on any
\* later rank the slice received from the previous rank.
cache_send_recv(sp, items, cache_size, memory, times, received) ==
    IF sp.rank > 0 THEN (IF cache_recv(sp, cache_size) THEN received ELSE None)
    ELSE IF memory # None THEN memory
    ELSE IF times > 0 THEN tile_head(items[1], times)
    ELSE None

\* Lines 225-231: whether this rank captures / exchanges the boundary.
captures_boundary(self, sp, memory_state, cache_size) ==
    /\ memory_state \in {INITIALIZING, ACTIVE}
    /\ ~self.training
    /\ self.memory_device # NoDevice
    /\ sp.rank \in {0, sp.size - 1}
    /\ cache_size # 0

\* Lines 232-235: splice the cache into a single short input, then assert.
\* Yields the (possibly spliced) items, the cache left, and ok.
splice_last(items, cache, cache_size) ==
    LET last == items[Len(items)]
        do == cache_size > size(last, 2) /\ cache # None /\ Len(items) = 1
        items2 == IF do THEN <<cat(cache, items[1], 2)>> ELSE items
    IN  [ items |-> items2,
          cache |-> IF do THEN None ELSE cache,
          ok |-> overlap_fits(cache_size, size(items2[Len(items2)], 2)) ]

\* Mutation of boundary_plan: the slice is cut from the first item of the
\* input instead of the last.
boundary_plan_first_item(sp, items, cache_size) ==
    [ keep |-> IF sp.size = 1 THEN trailing(items[1], 2, cache_size) ELSE None,
      send |-> IF sp.size # 1 /\ sp.rank = sp.size - 1
               THEN trailing(items[1], 2, cache_size) ELSE None,
      recv |-> sp.size # 1 /\ sp.rank = 0 ]

\* Mutation of boundary_plan: the first rank does not post its receive.
boundary_plan_no_recv(sp, items, cache_size) ==
    [ keep |-> IF sp.size = 1 THEN trailing(items[Len(items)], 2, cache_size) ELSE None,
      send |-> IF sp.size # 1 /\ sp.rank = sp.size - 1
               THEN trailing(items[Len(items)], 2, cache_size) ELSE None,
      recv |-> FALSE ]

\* Lines 236-251: what the rank does with its trailing slice: keep it as
\* its own memory (single rank), send it on (last rank), and whether it
\* receives its memory from the previous rank (first rank).
boundary_plan(sp, items, cache_size) ==
    LET slice == trailing(items[Len(items)], 2, cache_size)
    IN  [ keep |-> IF sp.size = 1 THEN slice ELSE None,
          send |-> IF sp.size # 1 /\ sp.rank = sp.size - 1 THEN slice ELSE None,
          recv |-> sp.size # 1 /\ sp.rank = 0 ]

\* Lines 246-250: torch.empty(*shape) with shape[2] = cache_size raises on
\* a negative size.
empty_ok(cache_size) == cache_size >= 0

RECURSIVE slices_loop(_, _, _, _)
\* Lines 256-278: the loop over the slices of one call, from slice i on.
slices_loop(items, i, cache, acc) ==
    IF i > Len(items) THEN acc
    ELSE
    LET cache_len == IF cache # None THEN size(cache, 2) ELSE 0
        cache_size == IF i < Len(items)
                      THEN get_cache_size(acc.self, size(items[i], 2) + cache_len, 0, 0)
                      ELSE 0
        do == cache_size # 0 /\ cache_size > size(items[i], 2) /\ cache # None
        item == IF do THEN cat(cache, items[i], 2) ELSE items[i]
        cache2 == IF do THEN None ELSE cache
        step == [ i |-> i, cache_size |-> cache_size, size |-> size(items[i], 2),
                  has_cache |-> cache # None ]
        slices == Append(acc.slices, step)
    IN  IF cache_size # 0 /\ ~overlap_fits(cache_size, size(item, 2))
        THEN [acc EXCEPT !.ok = FALSE, !.out = <<>>, !.slices = slices]
        ELSE
        LET next_cache == IF cache_size # 0 THEN trailing(item, 2, cache_size) ELSE None
            r == memory_limit_conv(acc.self, item, 3, pad_tuple(acc.self), cache2)
            self2 == [acc.self EXCEPT !.padding = r.padding]
        IN  IF ~r.ok
            THEN [acc EXCEPT !.self = self2, !.ok = FALSE, !.out = <<>>,
                             !.calls = acc.calls \o r.calls,
                             !.chunks = acc.chunks \o r.chunks, !.slices = slices]
            ELSE slices_loop(items, i + 1, next_cache,
                             [acc EXCEPT !.self = self2, !.out = Append(acc.out, r.out),
                                         !.calls = acc.calls \o r.calls,
                                         !.chunks = acc.chunks \o r.chunks,
                                         !.slices = slices])

\* InflatedCausalConv3d.slicing_forward.  inbox = [cache, memory]: what the
\* previous rank's sends deliver to this rank's receives, when it issues
\* them (both None on a single process).
slicing_forward(self, sp, input, memory_state, inbox) ==
    LET cache_size == self.kernel_size[1] - self.stride[1]
        sent1 == cache_send(sp, input.items, cache_size)
        cache == cache_send_recv(sp, input.items, cache_size, self.memory,
                                 self.temporal_padding * 2, inbox.cache)
        capture == captures_boundary(self, sp, memory_state, cache_size)
        sp1 == splice_last(input.items, cache, cache_size)
        items == IF capture THEN sp1.items ELSE input.items
        cache2 == IF capture THEN sp1.cache ELSE cache
        plan == boundary_plan(sp, items, cache_size)
        stored == IF ~capture THEN self
                  ELSE IF plan.keep # None THEN [self EXCEPT !.memory = plan.keep]
                  ELSE IF plan.recv THEN [self EXCEPT !.memory = inbox.memory]
                  ELSE self
        sends == (IF sent1 # None
                  THEN <<[to |-> next_rank(sp), data |-> sent1, at |-> "cache_send_recv"]>>
                  ELSE <<>>)
              \o (IF capture /\ sp1.ok /\ plan.send # None
                  THEN <<[to |-> next_rank(sp), data |-> plan.send, at |-> "slicing_forward"]>>
                  ELSE <<>>)
        recvs == (IF cache_recv(sp, cache_size)
                  THEN <<[from |-> prev_rank(sp), at |-> "cache_send_recv"]>>
                  ELSE <<>>)
              \o (IF capture /\ sp1.ok /\ plan.recv /\ empty_ok(cache_size)
                  THEN <<[from |-> prev_rank(sp), at |-> "slicing_forward"]>>
                  ELSE <<>>)
    IN  IF capture /\ ~sp1.ok
        THEN Outcome(self, FALSE, <<>>, "slicing", <<>>, <<>>, <<>>, sends, recvs)
        ELSE IF capture /\ plan.recv /\ ~empty_ok(cache_size)
        THEN Outcome(self, FALSE, <<>>, "slicing", <<>>, <<>>, <<>>, sends, recvs)
        ELSE slices_loop(items, 1, cache2,
                         Outcome(stored, TRUE, <<>>, "slicing", <<>>, <<>>, <<>>,
                                 sends, recvs))

\* What a single process receives: nothing.
NoInbox == [cache |-> None, memory |-> None]

\* Mutation of takes_direct_path: the input is not looked at.
takes_direct_path_any_input(self, sp, input) ==
    isinf(self.memory_limit) /\ sp.group = NoGroupHandle

\* Lines 172-176: the direct path is taken with no memory limit, a tensor
\* input and no sequence-parallel group.
takes_direct_path(self, sp, input) ==
    isinf(self.memory_limit) /\ input.is_tensor /\ sp.group = NoGroupHandle

\* Mutations of reset_memory: the memory is never dropped / always dropped.
reset_memory_never(self, memory_state) == self

reset_memory_always(self, memory_state) == [self EXCEPT !.memory = None]

\* Lines 170-171: any state but ACTIVE drops the stored memory first.
reset_memory(self, memory_state) ==
    IF memory_state # ACTIVE THEN [self EXCEPT !.memory = None] ELSE self

\* Lines 170-178: forward past its assertion.
forward_dispatch(self, sp, input, memory_state, inbox) ==
    LET cleared == reset_memory(self, memory_state)
    IN  IF takes_direct_path(cleared, sp, input)
        THEN basic_forward(cleared, input.items[1], memory_state)
        ELSE slicing_forward(cleared, sp, input, memory_state, inbox)

\* Mutation of forward: the assertion on the memory state is dropped.
forward_no_assert(self, sp, input, memory_state, inbox) ==
    forward_dispatch(self, sp, input, memory_state, inbox)

\* InflatedCausalConv3d.forward: the assertion, then the dispatch.
forward(self, sp, input, memory_state, inbox) ==
    IF ~(memory_state # UNSET)
    THEN Outcome(self, FALSE, <<>>, "none", <<>>, <<>>, <<>>, <<>>, <<>>)
    ELSE forward_dispatch(self, sp, input, memory_state, inbox)

---------------------------------------------------------------------------
(* Spec: one layer on a single process, any sequence of forward calls and  *)
(* of configuration changes.                                               *)

NoGroup == [group |-> NoGroupHandle, rank |-> 0, size |-> 1]

SingleRank == [group |-> "sp", rank |-> 0, size |-> 1]

\* Frames a..b of a video of FrameH rows and one column.
Clip(a, b) == << [i \in 1..(b - a + 1) |-> a + i - 1], [i \in 1..FrameH |-> i], <<1>> >>

\* The inputs of a call: one tensor, or a list of two consecutive slices.
Inputs ==
    { [is_tensor |-> TRUE, items |-> <<Clip(a, b)>>] :
        a \in 1..MaxFrames, b \in 1..MaxFrames }
    \cup
    { [is_tensor |-> FALSE, items |-> <<Clip(a, m), Clip(m + 1, b)>>] :
        a \in 1..MaxFrames, m \in 1..MaxFrames, b \in 1..MaxFrames }

ValidInput(input) == \A i \in 1..Len(input.items) : size(input.items[i], 2) >= 1

\* Frames held in the stored memory.  With stride > kernel the memory
\* keeps growing from one ACTIVE call to the next; the runs stop short of
\* MaxMemory frames.
MemoryLen(self) == IF self.memory = None THEN 0 ELSE size(self.memory, 2)

\* The spatial geometry of the layers of Spec: kernel 3, stride 1, padding 1
\* along h; kernel 1 along w.
LayerOf(kt, st, tp) == new_layer(<<kt, 3, 1>>, <<st, 1, 1>>, <<tp, 1, 0>>, "same")

NoCall ==
    [ op |-> "init", memory_state |-> UNSET, input |-> [is_tensor |-> TRUE, items |-> <<>>],
      before |-> LayerOf(1, 1, 0), ok |-> FALSE, out |-> <<>>, path |-> "none",
      calls |-> <<>>, chunks |-> <<>>, slices |-> <<>>, sends |-> <<>>, recvs |-> <<>>,
      direct |-> [ok |-> FALSE, out |-> <<>>, memory |-> None, path |-> "none"] ]

Init ==
    /\ \E kt \in Kernels, st \in Strides, tp \in Pads :
          layer = LayerOf(kt, st, tp)
    /\ topology \in {NoGroup, SingleRank}
    /\ call = NoCall
    /\ x = None /\ prev_cache = None /\ result = None /\ unsplit = None
    /\ stream = None /\ ranks = None /\ state_dict = None
    /\ pc = "idle"

\* The same layer in the same state on a process with no group and no
\* memory limit: the one forward sends down the direct path.
DirectLayer(self) == set_memory_limit(self, INF)

\* layer(input, memory_state); beside it, what the direct path makes of the
\* same call from the same state.
Forward(input, memory_state) ==
    /\ pc = "idle"
    /\ \E o \in {forward(layer, topology, input, memory_state, NoInbox)},
          d \in {forward(DirectLayer(layer), NoGroup, input, memory_state, NoInbox)} :
        /\ MemoryLen(o.self) <= MaxMemory
        /\ layer' = o.self
        /\ call' = [ op |-> "forward", memory_state |-> memory_state, input |-> input,
                     before |-> layer,
                     ok |-> o.ok, out |-> o.out, path |-> o.path,
                     calls |-> o.calls, chunks |-> o.chunks, slices |-> o.slices,
                     sends |-> o.sends, recvs |-> o.recvs,
                     direct |-> [ok |-> d.ok, out |-> d.out, memory |-> d.self.memory,
                                 path |-> d.path] ]
    /\ pc' = "called"
    /\ UNCHANGED <<topology, x, prev_cache, result, unsplit, stream, ranks, state_dict>>

\* The call is over (it returned or raised); the caller goes on.
Return ==
    /\ pc = "called"
    /\ pc' = "idle"
    /\ call' = NoCall
    /\ UNCHANGED <<layer, topology, x, prev_cache, result, unsplit, stream, ranks, state_dict>>

\* layer.set_memory_limit(value).
SetMemoryLimit(value) ==
    /\ pc = "idle"
    /\ layer.memory_limit # value
    /\ layer' = set_memory_limit(layer, value)
    /\ UNCHANGED <<topology, call, x, prev_cache, result, unsplit, stream, ranks, state_dict, pc>>

\* layer.set_memory_device(memory_device).
SetMemoryDevice(memory_device) ==
    /\ pc = "idle"
    /\ layer.memory_device # memory_device
    /\ layer' = set_memory_device(layer, memory_device)
    /\ UNCHANGED <<topology, call, x, prev_cache, result, unsplit, stream, ranks, state_dict, pc>>

\* nn.Module.train(mode) / eval().
Train(mode) ==
    /\ pc = "idle"
    /\ layer.training # mode
    /\ layer' = [layer EXCEPT !.training = mode]
    /\ UNCHANGED <<topology, call, x, prev_cache, result, unsplit, stream, ranks, state_dict, pc>>

Next ==
    \/ \E input \in Inputs, memory_state \in MemoryState :
          ValidInput(input) /\ Forward(input, memory_state)
    \/ Return
    \/ \E value \in {INF, FiniteLimit} : SetMemoryLimit(value)
    \/ \E memory_device \in {NoDevice, "same"} : SetMemoryDevice(memory_device)
    \/ \E mode \in BOOLEAN : Train(mode)

Spec == Init /\ [][Next]_vars

---------------------------------------------------------------------------
(* Properties of forward (Spec).                                           *)

Called == call.op = "forward"

\* The frames, in order, of the first tensor handed to the convolution.
FirstConvFrames == call.calls[1].input[1]

\* The first frame of the input, duplicated temporal_padding * 2 times.
Duplicated(self, input) == tile_head(input.items[1], self.temporal_padding * 2)[1]

\* C3: a forward call with state UNSET fails at once: no convolution, no
\* send or receive, no output, and the stored memory is what it was.
C3_UnsetFailsFast ==
    (Called /\ call.memory_state = UNSET) =>
        /\ ~call.ok /\ call.out = <<>>
        /\ call.calls = <<>> /\ call.chunks = <<>> /\ call.slices = <<>>
        /\ call.sends = <<>> /\ call.recvs = <<>>
        /\ layer = call.before

C3_Witness ==
    Called /\ call.memory_state = UNSET /\ call.before.memory # None

\* C4 (as claimed): after a DISABLED call the stored memory is the memory
\* stored before it.
C4_DisabledKeepsMemory ==
    (Called /\ call.memory_state = DISABLED) => layer.memory = call.before.memory

\* C4 (amended): a DISABLED call stores nothing and leaves no memory
\* behind (it drops what was stored), and what it computes is what the same
\* call computes on the layer with no memory stored.
C4_DisabledDropsMemory ==
    (Called /\ call.memory_state = DISABLED) =>
        /\ layer.memory = None
        /\ LET o == forward([call.before EXCEPT !.memory = None], topology,
                            call.input, DISABLED, NoInbox)
           IN  call.ok = o.ok /\ call.out = o.out /\ call.calls = o.calls

C4_Witness ==
    /\ Called /\ call.memory_state = DISABLED /\ call.ok
    /\ call.before.memory # None /\ layer.memory = None

\* C5 (as claimed): a call with INITIALIZING or ACTIVE made while a memory
\* is stored and the memory device is enabled convolves the stored memory
\* followed by the input; the first frame is duplicated only on a call
\* made while nothing is stored.
C5_StoredMemoryIsConsumed ==
    (Called /\ call.calls # <<>>) =>
        /\ ( /\ call.memory_state \in {INITIALIZING, ACTIVE}
             /\ call.before.memory # None
             /\ call.before.memory_device # NoDevice )
           => FirstConvFrames = call.before.memory[1] \o call.input.items[1][1]
        /\ ( /\ call.before.temporal_padding > 0
             /\ FirstConvFrames = Duplicated(call.before, call.input) \o call.input.items[1][1] )
           => call.before.memory = None

\* C5 (amended): only an ACTIVE call consumes the stored memory, and it does
\* whatever the memory device: it convolves the memory followed by the
\* input.  An INITIALIZING or DISABLED call drops the stored memory, and
\* like an ACTIVE call made while nothing is stored it convolves the first
\* frame duplicated padding * 2 times followed by the input.
C5_ActiveConsumesMemory ==
    (Called /\ call.calls # <<>>) =>
        IF call.memory_state = ACTIVE /\ call.before.memory # None
        THEN FirstConvFrames = call.before.memory[1] \o call.input.items[1][1]
        ELSE FirstConvFrames = Duplicated(call.before, call.input) \o call.input.items[1][1]

C5_Witness ==
    /\ Called /\ call.ok /\ call.memory_state = ACTIVE /\ call.before.memory # None
    /\ call.before.temporal_padding > 0
    /\ FirstConvFrames = call.before.memory[1] \o call.input.items[1][1]

\* The call went down the slicing path on a topology of one rank.
SlicedOnOneRank ==
    Called /\ call.memory_state # UNSET /\ call.input.is_tensor
           /\ topology.size = 1 /\ call.path = "slicing"

\* C8 (as claimed): with world size 1 the slicing path sends and receives
\* nothing, and after the call the stored memory is the one the direct path
\* (basic_forward) stores for the same call made in the same state.
C8_OneRankStoresAsDirect ==
    SlicedOnOneRank =>
        /\ call.sends = <<>> /\ call.recvs = <<>>
        /\ call.direct.path = "basic"
        /\ layer.memory = call.direct.memory

\* The two paths part only where the temporal stride exceeds the kernel or
\* the call raises: for layers whose temporal kernel is at least their
\* stride, and calls that return on both paths, the stored memories agree.
OneRankStoresAsDirect_KernelGeStride ==
    SlicedOnOneRank =>
        /\ call.sends = <<>> /\ call.recvs = <<>>
        /\ call.direct.path = "basic"
        /\ ( /\ layer.kernel_size[1] >= layer.stride[1]
             /\ call.ok /\ call.direct.ok )
           => layer.memory = call.direct.memory

\* Some chunk of a split, or some slice of the call, had to hand on more
\* than it holds, with no cache to splice in.
OverlapExceedsChunk ==
    \/ \E i \in 1..Len(call.chunks) :
          /\ call.chunks[i].next_catch_size > call.chunks[i].size
          /\ ~call.chunks[i].has_cache
    \/ \E i \in 1..Len(call.slices) :
          /\ call.slices[i].cache_size > call.slices[i].size
          /\ ~call.slices[i].has_cache

\* C9: when the overlap a chunk must hand on exceeds the chunk and no cache
\* is there to splice in, the call fails at the precondition (no
\* convolution of the call is what raised) and returns no output.
C9_OverlapExceedsChunkFails ==
    (Called /\ OverlapExceedsChunk) =>
        /\ ~call.ok /\ call.out = <<>>
        /\ \A i \in 1..Len(call.calls) : ~call.calls[i].raised

C9_Witness ==
    /\ Called /\ ~call.ok
    /\ \E i \in 1..Len(call.chunks) :
          /\ call.chunks[i].next_catch_size > call.chunks[i].size
          /\ ~call.chunks[i].has_cache
          /\ call.chunks[i].n > 1

C9_WitnessSlices ==
    /\ Called /\ ~call.ok
    /\ \E i \in 1..Len(call.slices) :
          /\ call.slices[i].cache_size > call.slices[i].size
          /\ ~call.slices[i].has_cache

---------------------------------------------------------------------------
(* SpecConv: memory_limit_conv as slicing_forward calls it (split_dim = 3, *)
(* the layer's spatial padding spelled out for F.pad), on every input,     *)
(* geometry and limit within the bounds; then once more with the limit     *)
(* lifted, which is the unsplit convolution.                               *)

NoResult == [ok |-> FALSE, out |-> <<>>, padding |-> <<>>, calls |-> <<>>, chunks |-> <<>>]

\* A tensor of nt frames numbered from first_t, nh rows and nw columns.
Tensor(first_t, nt, nh, nw) ==
    << [i \in 1..nt |-> first_t + i - 1], [i \in 1..nh |-> i], [i \in 1..nw |-> i] >>

InitConv ==
    /\ \E kt \in 1..2, kh \in Kernels, kw \in Kernels, sh \in Strides, sw \in Strides,
          ph \in Pads, pw \in Pads, lim \in 1..MaxLimit :
          layer = set_memory_limit(
                      new_layer(<<kt, kh, kw>>, <<1, sh, sw>>, <<0, ph, pw>>, "same"), lim)
    /\ \E nc \in 0..1, nt \in 1..MaxT, nh \in 1..MaxH, nw \in 1..MaxW :
          /\ x = Tensor(nc + 1, nt, nh, nw)
          /\ prev_cache = IF nc = 0 THEN None ELSE Tensor(1, nc, nh, nw)
    /\ result = NoResult
    /\ unsplit = NoResult
    /\ pc = "limited"
    /\ topology = NoGroup /\ call = NoCall
    /\ stream = None /\ ranks = None /\ state_dict = None

\* memory_limit_conv under the finite limit.
CallLimited ==
    /\ pc = "limited"
    /\ result' = memory_limit_conv(layer, x, 3, pad_tuple(layer), prev_cache)
    /\ pc' = "lift"
    /\ UNCHANGED <<layer, topology, call, x, prev_cache, unsplit, stream, ranks,
                   state_dict>>

\* set_memory_limit(float("inf")).
LiftLimit ==
    /\ pc = "lift"
    /\ layer' = set_memory_limit(layer, INF)
    /\ pc' = "unsplit"
    /\ UNCHANGED <<topology, call, x, prev_cache, result, unsplit, stream, ranks, state_dict>>

\* memory_limit_conv with no limit: the unsplit convolution.
CallUnsplit ==
    /\ pc = "unsplit"
    /\ unsplit' = memory_limit_conv(layer, x, 3, pad_tuple(layer), prev_cache)
    /\ pc' = "done"
    /\ UNCHANGED <<layer, topology, call, x, prev_cache, result, stream, ranks,
                   state_dict>>

NextConv == CallLimited \/ LiftLimit \/ CallUnsplit

SpecConv == InitConv /\ [][NextConv]_vars

\* C1 (as claimed): whenever the limited call completes, its output is the
\* unsplit output: same shape, and every position reads the same window.
C1_SplitInvariance ==
    (pc = "done" /\ result.ok) => (unsplit.ok /\ result.out = unsplit.out)

\* The geometry has no gap between windows along the axes that are split
\* (h and w): the kernel is at least the stride.
KernelCoversStride(self) == \A i \in 2..3 : self.kernel_size[i] >= self.stride[i]

\* The split and the unsplit outputs part only where the stride exceeds the
\* kernel: for every geometry whose kernel is at least its stride along h
\* and w, whenever the limited call completes, its output is the unsplit
\* output.
SplitInvariance_KernelCoversStride ==
    (pc = "done" /\ result.ok /\ KernelCoversStride(layer)) =>
        (unsplit.ok /\ result.out = unsplit.out)

\* The places of an axis in the F.pad tuple, which runs from the last axis
\* backwards: (w left, w right, h left, h right, t left, t right).
LeftPadAt(axis) == CASE axis = 2 -> 5 [] axis = 3 -> 3 [] axis = 4 -> 1

RightPadAt(axis) == LeftPadAt(axis) + 1

\* The layer's built-in padding along an axis of the 5-d input.
LayerPadding(axis) == layer.padding[axis - 1]

ChunkPaddedByPosition(c) ==
    /\ c.padding[LeftPadAt(c.split_dim)] =
          (IF c.idx = 1 THEN LayerPadding(c.split_dim) ELSE 0)
    /\ c.padding[RightPadAt(c.split_dim)] =
          (IF c.idx = c.n THEN LayerPadding(c.split_dim) ELSE 0)
    /\ \A j \in 1..6 \ {LeftPadAt(c.split_dim), RightPadAt(c.split_dim)} :
          c.padding[j] = c.given[j]

\* C18: at every level of the split, along the split axis the first chunk
\* alone gets the layer's left padding, the last chunk alone its right
\* padding, interior chunks none; the padding of the other axes is the one
\* handed down by the outer level.
C18_ChunkPaddingByPosition ==
    pc # "limited" => \A i \in 1..Len(result.chunks) : ChunkPaddedByPosition(result.chunks[i])

\* A completed call on a layer padded along h and w that split h in three
\* or more and, below an interior h chunk's sibling, split w as well.
C18_Witness ==
    /\ pc # "limited" /\ result.ok
    /\ LayerPadding(3) = 1 /\ LayerPadding(4) = 1
    /\ \E i \in 1..Len(result.chunks) :
          /\ result.chunks[i].split_dim = 3
          /\ result.chunks[i].idx > 1 /\ result.chunks[i].idx < result.chunks[i].n
    /\ \E i \in 1..Len(result.chunks) :
          /\ result.chunks[i].split_dim = 4
          /\ result.chunks[i].n > 1
          /\ result.chunks[i].given[LeftPadAt(3)] = 1

\* The footprint of a tensor handed to the convolution primitive: the
\* product of its shape (batch, channels and element size are 1).
Footprint(t) == size(t, 2) * size(t, 3) * size(t, 4)

LimitedCallCompleted == pc # "limited" /\ result.ok

\* C19 (as claimed): when the limited call completes, every invocation of
\* the convolution primitive was on a tensor whose footprint does not
\* exceed the memory limit.
C19_PeakMemoryCeiling ==
    LimitedCallCompleted =>
        \A i \in 1..Len(result.calls) :
            Footprint(result.calls[i].input) <= result.calls[i].limit

\* C19 (amended): when the limited call completes, every invocation of the
\* convolution primitive made while an axis is left to split on
\* (split_dim < ndim) was on a tensor whose footprint is below the memory
\* limit; with no axis left the convolution runs whatever the footprint.
C19_PeakMemoryCeilingWhileSplittable ==
    LimitedCallCompleted =>
        \A i \in 1..Len(result.calls) :
            result.calls[i].split_dim < ndim =>
                Footprint(result.calls[i].input) < result.calls[i].limit

\* A completed call that split its padded input and convolved a chunk
\* with an axis still left to split on.
C19_Witness ==
    /\ LimitedCallCompleted
    /\ LayerPadding(3) = 1
    /\ result.chunks # <<>>
    /\ \E i \in 1..Len(result.calls) :
          /\ result.calls[i].split_dim < ndim
          /\ Footprint(result.calls[i].input) > 1

---------------------------------------------------------------------------
(* SpecStream: one sequence fed to one layer twice on the direct path: as   *)
(* one DISABLED call, then chunk by chunk, the first chunk INITIALIZING and  *)
(* the following ones ACTIVE, the layer carrying its memory between calls.   *)
(* Every split of the sequence in two or more consecutive chunks is tried.   *)

TemporalPads == 0..2

\* Frames a..b of a one-pixel video.
Frames(a, b) == << [i \in 1..(b - a + 1) |-> a + i - 1], <<1>>, <<1>> >>

\* The splits of n frames in two or more consecutive chunks.
Splits(n) == { c \in UNION { [1..m -> 1..n] : m \in 2..n } : Sum(c) = n }

\* The output frames of a call on a one-pixel video: the temporal windows.
out_frames(o) == IF o.ok THEN o.out[1][1][1][1] ELSE <<>>

\* How many frames the call handed to the convolution.
conv_len(o) == IF o.calls = <<>> THEN 0 ELSE Len(o.calls[1].input[1])

InitStream ==
    /\ \E kt \in Kernels, st \in Strides, tp \in TemporalPads,
          memory_device \in {NoDevice, "same"}, mode \in BOOLEAN :
          layer = [new_layer(<<kt, 1, 1>>, <<st, 1, 1>>, <<tp, 0, 0>>, memory_device)
                     EXCEPT !.training = mode]
    /\ \E n \in 2..MaxSeq : \E c \in Splits(n) :
          stream = [ frames |-> n, chunks |-> c, fed |-> 0,
                     whole |-> [ok |-> FALSE, out |-> <<>>],
                     ok |-> TRUE, out |-> <<>>, lens |-> <<>> ]
    /\ topology = NoGroup /\ call = NoCall
    /\ x = None /\ prev_cache = None /\ result = None /\ unsplit = None
    /\ ranks = None /\ state_dict = None
    /\ pc = "whole"

\* layer(sequence, DISABLED).
StreamWhole ==
    /\ pc = "whole"
    /\ \E o \in {forward(layer, topology, [is_tensor |-> TRUE,
                                            items |-> <<Frames(1, stream.frames)>>],
                          DISABLED, NoInbox)} :
          /\ layer' = o.self
          /\ stream' = [stream EXCEPT !.whole = [ok |-> o.ok, out |-> out_frames(o)]]
    /\ pc' = "first"
    /\ UNCHANGED <<topology, call, x, prev_cache, result, unsplit, ranks, state_dict>>

\* layer(next chunk, memory_state); the outputs are concatenated in time.
StreamChunk(memory_state) ==
    \E o \in {forward(layer, topology,
                      [is_tensor |-> TRUE,
                       items |-> <<Frames(Sum(SubSeq(stream.chunks, 1, stream.fed)) + 1,
                                          Sum(SubSeq(stream.chunks, 1, stream.fed + 1)))>>],
                      memory_state, NoInbox)} :
        /\ layer' = o.self
        /\ stream' = [stream EXCEPT !.fed = @ + 1,
                                    !.ok = o.ok,
                                    !.out = IF o.ok THEN @ \o out_frames(o) ELSE <<>>,
                                    !.lens = Append(@, conv_len(o))]
        /\ pc' = IF ~o.ok \/ stream.fed + 1 = Len(stream.chunks) THEN "done" ELSE "next"
        /\ UNCHANGED <<topology, call, x, prev_cache, result, unsplit, ranks, state_dict>>

StreamFirst == pc = "first" /\ StreamChunk(INITIALIZING)

StreamNext == pc = "next" /\ StreamChunk(ACTIVE)

NextStream == StreamWhole \/ StreamFirst \/ StreamNext

SpecStream == InitStream /\ [][NextStream]_vars

ChunksAligned ==
    \A i \in 1..(Len(stream.lens) - 1) :
        (stream.lens[i] - layer.kernel_size[1]) % layer.stride[1] = 0

\* The layer carries its memory from call to call: eval mode, memory
\* device set, and a temporal kernel larger than the stride; or there is
\* nothing to carry: kernel equal to stride, and no temporal padding.
CarriesMemory ==
    \/ /\ ~layer.training /\ layer.memory_device # NoDevice
       /\ layer.kernel_size[1] > layer.stride[1]
    \/ /\ layer.kernel_size[1] = layer.stride[1]
       /\ layer.temporal_padding = 0

---------------------------------------------------------------------------
(* SpecDist: the ranks of one sequence-parallel group each call forward on  *)
(* their own copy of the layer, with the same memory state and their own    *)
(* shard of the sequence.  A rank's call stops at its blocking             *)
(* point-to-point operations; a send and the matching receive complete      *)
(* together (the operations are synchronous).  Within cache_send_recv a     *)
(* rank sends before it receives.                                           *)

RankCounts == {2, 3}

Ranks == 0..(topology.size - 1)

\* The topology as rank r queries it.
SP(r) == [topology EXCEPT !.rank = r]

\* The shards rank r may hold: a tensor of 1..MaxShard frames, or a list of
\* two slices.  Rank r's frames are numbered from 10 r + 1.
Shards(r) ==
    { [is_tensor |-> TRUE, items |-> <<Frames(10 * r + 1, 10 * r + n)>>] : n \in 1..MaxShard }
    \cup
    { [is_tensor |-> FALSE,
       items |-> <<Frames(10 * r + 1, 10 * r + 1), Frames(10 * r + 2, 10 * r + n)>>] :
        n \in 2..MaxShard }

\* The memory the first rank may hold from an earlier call.
EarlierMemory(kt, st) == IF kt > st THEN {None, Frames(91, 90 + kt - st)} ELSE {None}

Failed(rec, at) == [rec EXCEPT !.pc = "raised", !.failed_at = at, !.ok = FALSE]

\* Past the last blocking operation: the rank runs on.
after_boundary(rec) == [rec EXCEPT !.pc = "running"]

\* The rank's call is over: what it returned, or that it raised.
returns(rec, o) ==
    [rec EXCEPT !.pc = IF o.ok THEN "returned" ELSE "raised",
                !.failed_at = IF o.ok THEN "none" ELSE "conv",
                !.layer = o.self, !.ok = o.ok, !.out = o.out, !.calls = o.calls]

\* A rank that runs on takes the rest of slicing_forward to its end (lines
\* 255-280) with what it received; a rank at a blocking operation waits.
run_to_end(rec, sp) ==
    IF rec.pc # "running" THEN rec
    ELSE returns(rec, forward(rec.before, sp, rec.input, rec.memory_state, rec.inbox))

\* Lines 225-251 up to the next blocking operation.
at_boundary(rec, sp) ==
    LET cache_size == rec.layer.kernel_size[1] - rec.layer.stride[1]
        cache == cache_send_recv(sp, rec.input.items, cache_size, rec.layer.memory,
                                 rec.layer.temporal_padding * 2, rec.inbox.cache)
        sp1 == splice_last(rec.input.items, cache, cache_size)
        plan == boundary_plan(sp, sp1.items, cache_size)
    IN  IF ~captures_boundary(rec.layer, sp, rec.memory_state, cache_size)
        THEN after_boundary(rec)
        ELSE IF ~sp1.ok THEN Failed(rec, "boundary")
        ELSE IF plan.send # None THEN [rec EXCEPT !.pc = "boundary_send", !.outbox = plan.send]
        ELSE IF plan.recv
        THEN (IF empty_ok(cache_size) THEN [rec EXCEPT !.pc = "boundary_recv"]
              ELSE Failed(rec, "boundary"))
        ELSE after_boundary(rec)

\* cache_send_recv, from its receive on.
at_exchange_recv(rec, sp) ==
    IF cache_recv(sp, rec.layer.kernel_size[1] - rec.layer.stride[1])
    THEN [rec EXCEPT !.pc = "exchange_recv"]
    ELSE at_boundary(rec, sp)

\* cache_send_recv, from its send on.
at_exchange_send(rec, sp) ==
    LET data == cache_send(sp, rec.input.items, rec.layer.kernel_size[1] - rec.layer.stride[1])
    IN  IF data # None
        THEN [rec EXCEPT !.pc = "exchange_send", !.outbox = data]
        ELSE at_exchange_recv(rec, sp)

InitDist ==
    /\ \E n \in RankCounts : topology = [group |-> "sp", rank |-> 0, size |-> n]
    /\ \E kt \in Kernels, st \in Strides, tp \in Pads, memory_state \in MemoryState :
       \E memory \in EarlierMemory(kt, st) :
       \E s0 \in Shards(0), s1 \in Shards(1),
          s2 \in IF topology.size > 2 THEN Shards(2) ELSE {None} :
       \E shards \in {<<s0, s1, s2>>} :
          /\ ranks = [r \in Ranks |->
                [ layer |-> [new_layer(<<kt, 1, 1>>, <<st, 1, 1>>, <<tp, 0, 0>>, "same")
                               EXCEPT !.training = FALSE,
                                      !.memory = IF r = 0 THEN memory ELSE None],
                  before |-> None, input |-> shards[r + 1], memory_state |-> memory_state,
                  pc |-> "idle", failed_at |-> "none", inbox |-> NoInbox, outbox |-> None,
                  sends |-> <<>>, recvs |-> <<>>, ok |-> FALSE, out |-> <<>>,
                  calls |-> <<>> ]]
    /\ layer = None /\ call = NoCall
    /\ x = None /\ prev_cache = None /\ result = None /\ unsplit = None
    /\ stream = None /\ state_dict = None
    /\ pc = "ranks"

\* What lets a rank step: it has not called yet; its send in
\* cache_send_recv meets the receive of its next rank; its send of lines
\* 239-244 meets the receive of lines 245-251 on its next rank.
CanCall(r) == ranks[r].pc = "idle"

CanExchange(r) ==
    /\ ranks[r].pc = "exchange_send"
    /\ ranks[next_rank(SP(r))].pc = "exchange_recv"
    /\ prev_rank(SP(next_rank(SP(r)))) = r

CanBoundaryExchange(r) ==
    /\ ranks[r].pc = "boundary_send"
    /\ ranks[next_rank(SP(r))].pc = "boundary_recv"
    /\ prev_rank(SP(next_rank(SP(r)))) = r

\* Rank r calls layer(input, memory_state): lines 169-171, then
\* slicing_forward up to its first blocking operation.
RankCall(r) ==
    /\ CanCall(r)
    /\ ranks' = [ranks EXCEPT ![r] =
          IF ~(ranks[r].memory_state # UNSET)
          THEN Failed([ranks[r] EXCEPT !.before = ranks[r].layer], "state")
          ELSE run_to_end(
                  at_exchange_send(
                     [ranks[r] EXCEPT !.before = ranks[r].layer,
                                      !.layer = reset_memory(ranks[r].layer,
                                                             ranks[r].memory_state)],
                     SP(r)),
                  SP(r))]
    /\ UNCHANGED <<layer, topology, call, x, prev_cache, result, unsplit, stream,
                   state_dict, pc>>

\* The send of rank r in cache_send_recv meets the receive of its next rank.
Exchange(r) ==
    /\ CanExchange(r)
    /\ \E dst \in {next_rank(SP(r))} :
          /\ ranks' = [q \in Ranks |->
                IF q \notin {r, dst} THEN ranks[q]
                ELSE run_to_end(
                        IF q = r
                        THEN at_exchange_recv(
                                [ranks[r] EXCEPT !.sends = Append(@, [to |-> dst,
                                                      data |-> ranks[r].outbox,
                                                      at |-> "cache_send_recv"])],
                                SP(r))
                        ELSE at_boundary(
                                [ranks[dst] EXCEPT !.inbox.cache = ranks[r].outbox,
                                       !.recvs = Append(@, [from |-> r,
                                                            at |-> "cache_send_recv"])],
                                SP(dst)),
                        SP(q))]
    /\ UNCHANGED <<layer, topology, call, x, prev_cache, result, unsplit, stream,
                   state_dict, pc>>

\* The send of the last rank (lines 239-244) meets the receive of the
\* first rank (lines 245-251), which stores what it receives as its memory.
BoundaryExchange(r) ==
    /\ CanBoundaryExchange(r)
    /\ \E dst \in {next_rank(SP(r))} :
          /\ ranks' = [q \in Ranks |->
                IF q \notin {r, dst} THEN ranks[q]
                ELSE run_to_end(
                        after_boundary(
                           IF q = r
                           THEN [ranks[r] EXCEPT !.sends = Append(@, [to |-> dst,
                                                      data |-> ranks[r].outbox,
                                                      at |-> "slicing_forward"])]
                           ELSE [ranks[dst] EXCEPT !.inbox.memory = ranks[r].outbox,
                                       !.recvs = Append(@, [from |-> r,
                                                            at |-> "slicing_forward"])]),
                        SP(q))]
    /\ UNCHANGED <<layer, topology, call, x, prev_cache, result, unsplit, stream,
                   state_dict, pc>>

NextDist ==
    \/ \E r \in Ranks : RankCall(r)
    \/ \E r \in Ranks : Exchange(r)
    \/ \E r \in Ranks : BoundaryExchange(r)

SpecDist == InitDist /\ [][NextDist]_vars

\* Caching is enabled on rank r's call: lines 226-230 but for the rank.
Caching(r) ==
    /\ ranks[r].memory_state \in {INITIALIZING, ACTIVE}
    /\ ~ranks[r].layer.training
    /\ ranks[r].layer.memory_device # NoDevice
    /\ ranks[r].layer.kernel_size[1] > ranks[r].layer.stride[1]

CacheSize(r) == ranks[r].layer.kernel_size[1] - ranks[r].layer.stride[1]

Last == topology.size - 1

\* The trailing slice of rank r's own shard.
TrailingSlice(r) ==
    trailing(ranks[r].input.items[Len(ranks[r].input.items)], 2, CacheSize(r))

\* The frames, in order, of the first tensor rank r handed to the convolution.
ConvFrames(r) == ranks[r].calls[1].input[1]

\* C6 (as claimed): in a call with caching enabled every rank but the last
\* sends its trailing slice to its next rank, every rank but the first
\* receives a slice from its previous rank and installs it as its memory,
\* the last rank sends nothing and the first rank receives nothing.
C6_ChainExchange ==
    \A r \in Ranks : (ranks[r].pc = "returned" /\ Caching(r)) =>
        /\ r < Last => \E i \in 1..Len(ranks[r].sends) :
                            /\ ranks[r].sends[i].to = r + 1
                            /\ ranks[r].sends[i].data = TrailingSlice(r)
        /\ r > 0 => /\ \E i \in 1..Len(ranks[r].recvs) : ranks[r].recvs[i].from = r - 1
                     /\ ranks[r].layer.memory = ranks[r].inbox.cache
        /\ r = Last => ranks[r].sends = <<>>
        /\ r = 0 => ranks[r].recvs = <<>>

\* C6 (amended): in a call with caching enabled every rank but the last
\* sends its trailing slice to its next rank; every rank but the first
\* receives that slice from its previous rank and convolves it in front of
\* its own input, without storing it.  Then the last rank sends its
\* trailing slice (cut after the received slice was spliced in, when the
\* shard is shorter than it) to the first rank, which receives it and
\* stores it as its memory.
C6_ChainExchangeAndWrapAround ==
    \A r \in Ranks : (ranks[r].pc = "returned" /\ Caching(r)) =>
        /\ r < Last =>
              /\ Len(ranks[r].sends) = 1
              /\ ranks[r].sends[1] = [to |-> r + 1, data |-> TrailingSlice(r),
                                      at |-> "cache_send_recv"]
        /\ r > 0 =>
              /\ ranks[r].recvs = <<[from |-> r - 1, at |-> "cache_send_recv"]>>
              /\ ranks[r].inbox.cache = TrailingSlice(r - 1)
              /\ ConvFrames(r) = ranks[r].inbox.cache[1] \o ranks[r].input.items[1][1]
              /\ ranks[r].layer.memory = None
        /\ r = Last =>
              /\ Len(ranks[r].sends) = 1
              /\ ranks[r].sends[1].to = 0
              /\ ranks[r].sends[1].at = "slicing_forward"
              /\ ranks[r].sends[1].data[1] =
                    tail_slice(IF Len(ranks[r].input.items) = 1
                               THEN ConvFrames(r)
                               ELSE ranks[r].input.items[2][1], CacheSize(r))
              /\ ranks[0].layer.memory = ranks[r].sends[1].data
        /\ r = 0 =>
              /\ ranks[r].recvs = <<[from |-> Last, at |-> "slicing_forward"]>>
              /\ ranks[r].layer.memory = ranks[r].inbox.memory

\* Three ranks returned from a call with caching enabled; the last rank's
\* shard is shorter than the slice it received.
C6_Witness ==
    /\ topology.size = 3
    /\ \A r \in Ranks : ranks[r].pc = "returned" /\ Caching(r)
    /\ CacheSize(0) = 2
    /\ Len(ranks[Last].input.items[1][1]) = 1
    /\ ranks[0].layer.memory = ranks[Last].sends[1].data
    /\ ranks[1].inbox.cache = TrailingSlice(0)

AllDone == \A r \in Ranks : ranks[r].pc \in {"returned", "raised"}

\* A rank failed the assertion of line 235 (or torch.empty of line 248)
\* before it posted its boundary operation.
BoundaryFailure == \E r \in Ranks : ranks[r].pc = "raised" /\ ranks[r].failed_at = "boundary"

\* Some rank can step.
CanStep == \E r \in Ranks : CanCall(r) \/ CanExchange(r) \/ CanBoundaryExchange(r)

\* How far rank r is in its call.
Position(r) ==
    CASE ranks[r].pc = "idle" -> 0
      [] ranks[r].pc = "exchange_send" -> 1
      [] ranks[r].pc = "exchange_recv" -> 2
      [] ranks[r].pc \in {"boundary_send", "boundary_recv"} -> 3
      [] OTHER -> 4

RECURSIVE PositionsFrom(_)
PositionsFrom(r) == IF r > Last THEN 0 ELSE Position(r) + PositionsFrom(r + 1)

---------------------------------------------------------------------------
(* SpecLoad: loading a state dict into the layer.  A parameter tensor is    *)
(* [shape, data]: a weight's data is the sequence of its temporal slices    *)
(* (one slice for a 2D weight), a slice being a 2D kernel [of, div, tiled]: *)
(* the kernel `of` divided by div, tiled = its values were broadcast over a *)
(* larger spatial extent; a bias's data names its values.  Kernels are      *)
(* square.  A state dict is a function from the keys it holds; the prefix   *)
(* is empty.                                                                *)

weight_name == "weight"

bias_name == "bias"

\* Tensor.dim().
dim(t) == Len(t.shape)

Slice(of) == [of |-> of, div |-> 1, tiled |-> FALSE]

\* A 2D weight (out, in, h, w), a 3D weight (out, in, t, h, w), a bias (out,).
Weight2d(out, side, of) == [shape |-> <<out, 1, side, side>>, data |-> <<Slice(of)>>]

Weight3d(out, depth, side, of) ==
    [shape |-> <<out, 1, depth, side, side>>, data |-> [i \in 1..depth |-> Slice(of)]]

Bias(out, of) == [shape |-> <<out>>, data |-> of]

\* Tensor.copy_(src) broadcasts src to the shape it is copied into: the
\* shapes, aligned at their last axis, agree on every axis where src is not
\* of size 1; otherwise copy_ raises.
broadcastable(src_shape, dst_shape) ==
    /\ Len(src_shape) <= Len(dst_shape)
    /\ \A i \in 1..Len(src_shape) :
          \/ src_shape[i] = 1
          \/ src_shape[i] = dst_shape[Len(dst_shape) - Len(src_shape) + i]

\* The slice copy_ writes from a 2D kernel into a spatial extent (h, w).
copy_slice(slice, src_shape, dst_shape, div) ==
    [ of |-> slice.of, div |-> slice.div * div,
      tiled |-> slice.tiled \/ SubSeq(src_shape, 3, 4) # SubSeq(dst_shape, 4, 5) ]

\* inflate_weight(weight_2d, weight_3d, inflation_mode): the two assertions,
\* then weight_3d is overwritten in place and returned.  In tail mode the
\* kernel is zero-filled before the copy that may raise.
inflate_weight(weight_2d, weight_3d, inflation_mode) ==
    IF ~(inflation_mode \in {"tail", "replicate"}) THEN [ok |-> FALSE, weight |-> weight_3d]
    ELSE IF ~(SubSeq(weight_3d.shape, 1, 2) = SubSeq(weight_2d.shape, 1, 2))
    THEN [ok |-> FALSE, weight |-> weight_3d]
    ELSE LET depth == weight_3d.shape[3]
             fits == broadcastable(weight_2d.shape,
                                   SubSeq(weight_3d.shape, 1, 2) \o SubSeq(weight_3d.shape, 4, 5))
         IN  IF inflation_mode = "replicate"
             THEN [ ok |-> fits,
                    weight |-> IF ~fits THEN weight_3d
                               ELSE [weight_3d EXCEPT !.data = [i \in 1..depth |->
                                       copy_slice(weight_2d.data[1], weight_2d.shape,
                                                  weight_3d.shape, depth)]] ]
             ELSE [ ok |-> fits,
                    weight |-> [weight_3d EXCEPT !.data = [i \in 1..depth |->
                                  IF i = depth /\ fits
                                  THEN copy_slice(weight_2d.data[1], weight_2d.shape,
                                                  weight_3d.shape, 1)
                                  ELSE Slice("0")]] ]

\* inflate_bias(bias_2d, bias_3d, inflation_mode): bias_3d.shape raises on a
\* layer without bias; the assertion; then bias_3d is overwritten in place.
inflate_bias(bias_2d, bias_3d, inflation_mode) ==
    IF bias_3d = None THEN [ok |-> FALSE, bias |-> bias_3d]
    ELSE IF ~(bias_3d.shape = bias_2d.shape) THEN [ok |-> FALSE, bias |-> bias_3d]
    ELSE [ok |-> TRUE, bias |-> [bias_3d EXCEPT !.data = bias_2d.data]]

\* state_dict[key] = value.
setitem(dict, key, value) ==
    [k \in DOMAIN dict \cup {key} |-> IF k = key THEN value ELSE dict[k]]

\* Lines 450-459: the bias entry, when it is 1-D, is copied into the
\* layer's bias, which replaces the entry.
modify_bias(layer_, dict) ==
    IF bias_name \in DOMAIN dict /\ dim(dict[bias_name]) = 1
    THEN LET r == inflate_bias(dict[bias_name], layer_.bias, layer_.inflation_mode)
         IN  IF ~r.ok THEN [ok |-> FALSE, layer |-> layer_, state_dict |-> dict]
             ELSE [ ok |-> TRUE, layer |-> [layer_ EXCEPT !.bias = r.bias],
                    state_dict |-> setitem(dict, bias_name, r.bias) ]
    ELSE [ok |-> TRUE, layer |-> layer_, state_dict |-> dict]

\* Mutation of modify_state_dict: a weight that is not 4-D does not end the
\* transform, the bias is still handled.
modify_state_dict_no_return(layer_, dict) ==
    IF weight_name \in DOMAIN dict /\ dim(dict[weight_name]) = 4
    THEN LET r == inflate_weight(dict[weight_name], layer_.weight, layer_.inflation_mode)
         IN  IF ~r.ok THEN [ ok |-> FALSE, layer |-> [layer_ EXCEPT !.weight = r.weight],
                             state_dict |-> dict ]
             ELSE modify_bias([layer_ EXCEPT !.weight = r.weight],
                              setitem(dict, weight_name, r.weight))
    ELSE modify_bias(layer_, dict)

\* modify_state_dict(layer, state_dict, prefix, inflate_weight, inflate_bias).
\* Yields the layer and the state dict as the call leaves them, and whether
\* it returned.
modify_state_dict(layer_, dict) ==
    IF weight_name \in DOMAIN dict
    THEN IF dim(dict[weight_name]) = 4
         THEN LET r == inflate_weight(dict[weight_name], layer_.weight,
                                      layer_.inflation_mode)
              IN  IF ~r.ok THEN [ ok |-> FALSE,
                                  layer |-> [layer_ EXCEPT !.weight = r.weight],
                                  state_dict |-> dict ]
                  ELSE modify_bias([layer_ EXCEPT !.weight = r.weight],
                                   setitem(dict, weight_name, r.weight))
         ELSE [ok |-> TRUE, layer |-> layer_, state_dict |-> dict]
    ELSE modify_bias(layer_, dict)

\* nn.Module._load_from_state_dict (super(), lines 302-310) for one
\* parameter: an entry of the parameter's shape is copied into it; an entry
\* of another shape is an error message; no entry is a missing key when
\* strict.
load_param(param, dict, key) ==
    IF param = None \/ ~(key \in DOMAIN dict) THEN param
    ELSE IF dict[key].shape # param.shape THEN param
    ELSE [param EXCEPT !.data = dict[key].data]

load_errors(layer_, dict, strict) ==
    { key \in {weight_name, bias_name} :
        /\ layer_[key] # None
        /\ IF key \in DOMAIN dict THEN dict[key].shape # layer_[key].shape ELSE strict }

\* The keys the standard path appends to missing_keys: the layer's
\* parameters with no entry, when it is called strict.
load_missing(layer_, dict, strict) ==
    { key \in {weight_name, bias_name} :
        layer_[key] # None /\ ~(key \in DOMAIN dict) /\ strict }

\* Mutation of load_from_state_dict: strict is handed on as given.
load_from_state_dict_strict(layer_, dict, strict) ==
    LET m == IF layer_.inflation_mode # "none"
             THEN modify_state_dict(layer_, dict)
             ELSE [ok |-> TRUE, layer |-> layer_, state_dict |-> dict]
    IN  IF ~m.ok THEN [m EXCEPT !.ok = FALSE] @@ [errors |-> {}, missing |-> {}]
        ELSE [ ok |-> TRUE,
               layer |-> [m.layer EXCEPT
                            !.weight = load_param(m.layer.weight, m.state_dict, weight_name),
                            !.bias = load_param(m.layer.bias, m.state_dict, bias_name)],
               state_dict |-> m.state_dict,
               errors |-> load_errors(m.layer, m.state_dict, strict),
               missing |-> load_missing(m.layer, m.state_dict, strict) ]

\* InflatedCausalConv3d._load_from_state_dict.
load_from_state_dict(layer_, dict, strict) ==
    LET m == IF layer_.inflation_mode # "none"
             THEN modify_state_dict(layer_, dict)
             ELSE [ok |-> TRUE, layer |-> layer_, state_dict |-> dict]
    IN  IF ~m.ok THEN [m EXCEPT !.ok = FALSE] @@ [errors |-> {}, missing |-> {}]
        ELSE [ ok |-> TRUE,
               layer |-> [m.layer EXCEPT
                            !.weight = load_param(m.layer.weight, m.state_dict, weight_name),
                            !.bias = load_param(m.layer.bias, m.state_dict, bias_name)],
               state_dict |-> m.state_dict,
               errors |-> load_errors(m.layer, m.state_dict,
                                      strict /\ layer_.inflation_mode = "none"),
               missing |-> load_missing(m.layer, m.state_dict,
                                        strict /\ layer_.inflation_mode = "none") ]

\* The state dicts: a 2D or a 3D weight or none, a 1-D or a 2-D bias or none.
StateDicts(depth) ==
    LET weights == { Weight2d(out, side, "w") : out \in 1..MaxChannels, side \in 1..MaxSide }
                   \cup { Weight3d(out, depth, side, "w") :
                            out \in 1..MaxChannels, side \in 1..MaxSide }
        biases == { Bias(out, "b") : out \in 1..MaxChannels }
                  \cup { [shape |-> <<1, 1>>, data |-> "b"] }
    IN  { [k \in {} |-> None] }
        \cup { [k \in {weight_name} |-> w] : w \in weights }
        \cup { [k \in {bias_name} |-> b] : b \in biases }
        \cup { [k \in {weight_name, bias_name} |-> IF k = weight_name THEN wb[1] ELSE wb[2]] :
                 wb \in weights \X biases }

NoLoad ==
    [ op |-> "init", ok |-> FALSE, before |-> None, given |-> None, strict |-> FALSE,
      errors |-> {}, missing |-> {} ]

InitLoad ==
    /\ \E inflation_mode \in {"none", "tail", "replicate"}, out \in 1..MaxChannels,
          depth \in 1..MaxDepth, side \in 1..MaxSide, has_bias \in BOOLEAN :
          /\ layer = [ inflation_mode |-> inflation_mode,
                       weight |-> Weight3d(out, depth, side, "init"),
                       bias |-> IF has_bias THEN Bias(out, "init") ELSE None ]
          /\ state_dict \in StateDicts(depth)
    /\ call = NoLoad
    /\ topology = NoGroup
    /\ x = None /\ prev_cache = None /\ result = None /\ unsplit = None
    /\ stream = None /\ ranks = None
    /\ pc = "load"

\* modify_state_dict(layer, state_dict, prefix, ...) as line 294 lets it be
\* called: on a layer whose inflation mode is not "none".
ModifyStateDict ==
    /\ pc = "load"
    /\ layer.inflation_mode # "none"
    /\ \E m \in {modify_state_dict(layer, state_dict)} :
          /\ layer' = m.layer
          /\ state_dict' = m.state_dict
          /\ call' = [op |-> "modify_state_dict", ok |-> m.ok, before |-> layer,
                      given |-> state_dict, strict |-> FALSE, errors |-> {},
                      missing |-> {}]
    /\ pc' = "loaded"
    /\ UNCHANGED <<topology, x, prev_cache, result, unsplit, stream, ranks>>

\* layer._load_from_state_dict(state_dict, prefix, ..., strict, ...).
LoadFromStateDict(strict) ==
    /\ pc = "load"
    /\ \E m \in {load_from_state_dict(layer, state_dict, strict)} :
          /\ layer' = m.layer
          /\ state_dict' = m.state_dict
          /\ call' = [op |-> "load_from_state_dict", ok |-> m.ok, before |-> layer,
                      given |-> state_dict, strict |-> strict, errors |-> m.errors,
                      missing |-> m.missing]
    /\ pc' = "loaded"
    /\ UNCHANGED <<topology, x, prev_cache, result, unsplit, stream, ranks>>

\* What one output position of a convolution is made of: the taps of the
\* window, one per temporal slice that is not zero, each a 2D kernel
\* applied to a frame.
tap(slice, frame) == [of |-> slice.of, div |-> slice.div, tiled |-> slice.tiled,
                      frame |-> frame]

RECURSIVE taps(_, _, _)
taps(data, window, i) ==
    IF i > Len(data) THEN <<>>
    ELSE (IF data[i].of = "0" THEN <<>> ELSE <<tap(data[i], window[i])>>)
         \o taps(data, window, i + 1)

\* Conv3d.forward along time with stride 1: one output per window of
\* `depth` frames.
conv_taps(weight, frames) ==
    LET ws == Windows(frames, weight.shape[3], 1)
    IN  [p \in 1..Len(ws) |-> taps(weight.data, ws[p], 1)]

\* The clips the loaded layer is run on: up to MaxClip frames, each one of
\* two images (so a clip may tile one image along time).
Clips == UNION { [1..n -> {"f1", "f2"}] : n \in 1..MaxClip }

\* The loaded layer convolves a clip long enough for its kernel.
Convolve(frames) ==
    /\ pc = "loaded"
    /\ Len(frames) >= layer.weight.shape[3]
    /\ x' = frames
    /\ result' = conv_taps(layer.weight, frames)
    /\ pc' = "convolved"
    /\ UNCHANGED <<layer, topology, call, prev_cache, unsplit, stream, ranks, state_dict>>

NextLoad ==
    \/ ModifyStateDict
    \/ \E strict \in BOOLEAN : LoadFromStateDict(strict)
    \/ \E frames \in Clips : Convolve(frames)

SpecLoad == InitLoad /\ [][NextLoad]_vars

Transformed == pc \in {"loaded", "convolved"} /\ call.op = "modify_state_dict"

HasWeight2d == weight_name \in DOMAIN call.given /\ dim(call.given[weight_name]) = 4

HasBias1d == bias_name \in DOMAIN call.given /\ dim(call.given[bias_name]) = 1

\* C10 (as claimed): the transform rewrites something only when the stored
\* weight is 4-D; otherwise, also with a 5-D weight or with no weight
\* entry, every state-dict entry and every parameter is left as it was.
C10_RewritesOnly2dWeight ==
    (Transformed /\ ~HasWeight2d) => (state_dict = call.given /\ layer = call.before)

\* C10 (amended): a stored weight that is not 4-D makes the transform a
\* no-op; the weight is rewritten only from a 4-D stored weight; with a 4-D
\* weight or with no weight entry a 1-D stored bias is copied into the
\* layer's bias, and nothing else is rewritten.
C10_RewritesFrom2dWeightOr1dBias ==
    Transformed =>
        /\ (weight_name \in DOMAIN call.given /\ ~HasWeight2d)
              => (call.ok /\ state_dict = call.given /\ layer = call.before)
        /\ ( \/ layer.weight # call.before.weight
             \/ /\ weight_name \in DOMAIN call.given
                /\ state_dict[weight_name] # call.given[weight_name] )
              => HasWeight2d
        /\ layer.bias # call.before.bias
              => (HasBias1d /\ (HasWeight2d \/ ~(weight_name \in DOMAIN call.given)))
        /\ (call.ok /\ HasBias1d /\ ~(weight_name \in DOMAIN call.given))
              => layer.bias.data = call.given[bias_name].data
        /\ DOMAIN state_dict = DOMAIN call.given
        /\ bias_name \in DOMAIN call.given => state_dict[bias_name] = call.given[bias_name]
        /\ layer.inflation_mode = call.before.inflation_mode

\* A state dict with a 1-D bias and no weight entry: the layer's bias is
\* rewritten.
C10_Witness ==
    /\ Transformed /\ call.ok
    /\ ~(weight_name \in DOMAIN call.given) /\ HasBias1d
    /\ layer.bias # call.before.bias
    /\ layer.bias.data = call.given[bias_name].data
    /\ layer.weight = call.before.weight

\* A load or a transform that inflated a 4-D stored weight in tail mode.
TailInflated ==
    /\ pc \in {"loaded", "convolved"} /\ call.ok
    /\ call.before.inflation_mode = "tail"
    /\ HasWeight2d

SameSpatialShape ==
    SubSeq(call.given[weight_name].shape, 3, 4) = SubSeq(layer.weight.shape, 4, 5)

\* Every temporal slice but the last is zero, the last is the stored 2D
\* kernel, and each output position is that kernel applied to the last
\* frame of its window.
TailReproduces2d ==
    LET w2 == call.given[weight_name].data[1]
        depth == Len(layer.weight.data)
    IN  /\ \A i \in 1..(depth - 1) : layer.weight.data[i] = Slice("0")
        /\ layer.weight.data[depth] = w2
        /\ pc = "convolved" =>
              \A p \in 1..Len(result) : result[p] = <<tap(w2, x[p + depth - 1])>>

\* C11: after a tail inflation every temporal slice of the 3D kernel but
\* the last is zero and the last is the 2D kernel, so the layer's output at
\* each temporal position is the 2D convolution of the last frame of that
\* position's window.
C11_TailInflation == TailInflated => TailReproduces2d

\* The inflation departs from the 2D kernel only where the stored kernel's
\* spatial shape is not the layer's: with the same spatial shape the tail
\* inflation reproduces the 2D convolution.
TailInflation_SameSpatialShape == (TailInflated /\ SameSpatialShape) => TailReproduces2d

\* A strict load that returned.
StrictLoaded ==
    /\ pc \in {"loaded", "convolved"} /\ call.op = "load_from_state_dict"
    /\ call.ok /\ call.strict

\* The layer's parameters the given state dict has no entry for.
LackedKeys ==
    { key \in {weight_name, bias_name} :
        call.before[key] # None /\ ~(key \in DOMAIN call.given) }

\* C12 (as claimed): in every inflation mode a strict load reports the
\* layer's parameters that the state dict lacks in missing_keys.
C12_MissingKeysReported == StrictLoaded => call.missing = LackedKeys

\* C12 (amended): a strict load reports the lacked parameters in
\* missing_keys in mode none only; in modes tail and replicate nothing is
\* reported, and the lacked parameter stays as it was.
C12_MissingKeysReportedInModeNone ==
    StrictLoaded =>
        /\ call.missing = IF call.before.inflation_mode = "none" THEN LackedKeys ELSE {}
        /\ \A key \in LackedKeys : layer[key] = call.before[key]

\* A strict load in tail mode of a state dict with no weight entry: nothing
\* is reported.
C12_Witness ==
    /\ StrictLoaded /\ call.before.inflation_mode = "tail"
    /\ weight_name \in LackedKeys
    /\ call.missing = {}

---------------------------------------------------------------------------
(* SpecNorm: causal_norm_wrapper on one normalization layer and one tensor. *)
(* A tensor is [ndim, channels, element_size, occupy]: channels = the ids   *)
(* of its channels in order, occupy = numel * element_size in the unit of   *)
(* the norm limit.  A normalized tensor names, for each channel, the        *)
(* channels its statistics are taken over and its affine parameters.        *)

NormKinds == {"LayerNorm", "RMSNorm", "GroupNorm", "BatchNorm2d", "SyncBatchNorm", "Identity"}

\* One normalized channel.
normed(c, over, w, b) == [channel |-> c, over |-> over, weight |-> w, bias |-> b]

\* The affine parameter of channel i (None when the layer has none).
param_at(param, i) == IF param = None THEN "none" ELSE param[i]

\* F.group_norm(x, num_groups, weight, bias, eps): contiguous groups of
\* C / num_groups channels; raises when C is not a multiple of num_groups.
group_norm(channels, num_groups, weight, bias) ==
    LET C == Len(channels)
        per == C \div num_groups
    IN  IF C % num_groups # 0 THEN [ok |-> FALSE, out |-> <<>>]
        ELSE [ ok |-> TRUE,
               out |-> [i \in 1..C |->
                  normed(channels[i],
                         { channels[j] : j \in ((i - 1) \div per) * per + 1
                                               .. ((i - 1) \div per) * per + per },
                         param_at(weight, i), param_at(bias, i))] ]

\* norm_layer(x) for the layer kinds: LayerNorm / RMSNorm over the channel
\* axis, GroupNorm over its groups, BatchNorm per channel.
norm_layer_forward(norm_layer, channels) ==
    IF norm_layer.kind \in {"LayerNorm", "RMSNorm"}
    THEN [ ok |-> TRUE,
           out |-> [i \in 1..Len(channels) |->
                      normed(channels[i], { channels[j] : j \in 1..Len(channels) },
                             param_at(norm_layer.weight, i), param_at(norm_layer.bias, i))] ]
    ELSE IF norm_layer.kind = "GroupNorm"
    THEN group_norm(channels, norm_layer.num_groups, norm_layer.weight, norm_layer.bias)
    ELSE [ ok |-> TRUE,
           out |-> [i \in 1..Len(channels) |->
                      normed(channels[i], {channels[i]},
                             param_at(norm_layer.weight, i), param_at(norm_layer.bias, i))] ]

\* Tensor.chunk(chunks): pieces of ceil(len / chunks) items, the last one
\* shorter, as many as it takes.
chunk(seq, chunks) ==
    LET per == ceil_div(Len(seq), chunks)
    IN  [i \in 1..ceil_div(Len(seq), per) |->
            SubSeq(seq, (i - 1) * per + 1, Min(i * per, Len(seq)))]

\* Line 350: the chunk count.
num_chunks_of(norm_layer, t) ==
    Min(IF t.element_size = 2 THEN 4 ELSE 2, norm_layer.num_groups)

\* Mutation of groups_divisible: the assertion of line 352 is dropped.
groups_divisible_always(num_groups, num_chunks) == TRUE

\* Line 352: the groups divide evenly into the chunks.
groups_divisible(num_groups, num_chunks) == num_groups % num_chunks = 0

\* Lines 358-360: the chunks are normalized one by one, each with its slice
\* of the affine parameters; the loop runs over zip(weights, biases).
RECURSIVE norm_chunks(_, _, _, _, _, _)
norm_chunks(xs, weights, biases, num_groups_per_chunk, i, acc) ==
    IF i > Min(Len(weights), Len(biases)) THEN acc
    ELSE IF i > Len(xs) THEN [acc EXCEPT !.ok = FALSE]
    ELSE LET r == group_norm(xs[i], num_groups_per_chunk, weights[i], biases[i])
         IN  IF ~r.ok THEN [acc EXCEPT !.ok = FALSE, !.normalized = @ + 1]
             ELSE norm_chunks(xs, weights, biases, num_groups_per_chunk, i + 1,
                              [acc EXCEPT !.xs[i] = r.out, !.normalized = @ + 1])

RECURSIVE cat_list(_, _)
cat_list(xs, i) == IF i > Len(xs) THEN <<>> ELSE xs[i] \o cat_list(xs, i + 1)

\* What a call of causal_norm_wrapper yields: ok = it returned; path = the
\* branch taken; normalized = the normalization calls made; groups = the
\* groups each chunk was normalized with.
NormOutcome(ok, out, path, normalized, num_chunks) ==
    [ ok |-> ok, out |-> out, path |-> path, normalized |-> normalized,
      num_chunks |-> num_chunks ]

\* Lines 349-361: the chunked path.
chunked_norm(norm_layer, t) ==
    LET num_chunks == num_chunks_of(norm_layer, t)
        num_groups_per_chunk == norm_layer.num_groups \div num_chunks
        xs == chunk(t.channels, num_chunks)
    IN  IF ~groups_divisible(norm_layer.num_groups, num_chunks)
        THEN NormOutcome(FALSE, <<>>, "chunked", 0, num_chunks)
        ELSE IF norm_layer.weight = None \/ norm_layer.bias = None
        THEN NormOutcome(FALSE, <<>>, "chunked", 0, num_chunks)
        ELSE LET r == norm_chunks(xs, chunk(norm_layer.weight, num_chunks),
                                  chunk(norm_layer.bias, num_chunks),
                                  num_groups_per_chunk, 1,
                                  [ok |-> TRUE, xs |-> xs, normalized |-> 0])
             IN  NormOutcome(r.ok, IF r.ok THEN cat_list(r.xs, 1) ELSE <<>>, "chunked",
                             r.normalized, num_chunks)

\* causal_norm_wrapper(norm_layer, x); limit = get_norm_limit().
causal_norm_wrapper(norm_layer, t, limit) ==
    LET whole == norm_layer_forward(norm_layer, t.channels)
    IN  IF norm_layer.kind \in {"LayerNorm", "RMSNorm"} /\ t.ndim \in {4, 5}
        THEN NormOutcome(whole.ok, whole.out, "per_frame", 1, 0)
        ELSE IF norm_layer.kind \in {"GroupNorm", "BatchNorm2d", "SyncBatchNorm"}
                /\ t.ndim <= 4
        THEN NormOutcome(whole.ok, whole.out, "plain", 1, 0)
        ELSE IF norm_layer.kind \in {"GroupNorm", "BatchNorm2d", "SyncBatchNorm"}
                /\ t.ndim = 5
        THEN IF norm_layer.kind = "GroupNorm" /\ t.occupy > limit
             THEN chunked_norm(norm_layer, t)
             ELSE NormOutcome(whole.ok, whole.out, "folded", 1, 0)
        ELSE NormOutcome(FALSE, <<>>, "unsupported", 0, 0)

\* The affine parameters of a layer over C channels.
Affine(name, C) == [i \in 1..C |-> <<name, i>>]

InitNorm ==
    /\ \E kind \in NormKinds, num_groups \in 1..MaxGroups, per \in 1..MaxPerGroup,
          affine \in BOOLEAN :
          /\ layer = [ kind |-> kind, num_groups |-> num_groups,
                       weight |-> IF affine THEN Affine("w", num_groups * per) ELSE None,
                       bias |-> IF affine THEN Affine("b", num_groups * per) ELSE None ]
          /\ \E nd \in 3..6, element_size \in {2, 4}, occupy \in 1..MaxOccupy :
                x = [ ndim |-> nd, channels |-> [i \in 1..(num_groups * per) |-> i],
                      element_size |-> element_size, occupy |-> occupy ]
    /\ call = [op |-> "init", limit |-> 0]
    /\ result = None /\ unsplit = None
    /\ topology = NoGroup
    /\ prev_cache = None /\ stream = None /\ ranks = None /\ state_dict = None
    /\ pc = "norm"

\* causal_norm_wrapper(norm_layer, x) under a configured norm limit; beside
\* it, the unchunked normalization norm_layer(x) of the folded tensor.
CausalNormWrapper(limit) ==
    /\ pc = "norm"
    /\ result' = causal_norm_wrapper(layer, x, limit)
    /\ unsplit' = norm_layer_forward(layer, x.channels)
    /\ call' = [op |-> "causal_norm_wrapper", limit |-> limit]
    /\ pc' = "done"
    /\ UNCHANGED <<layer, topology, x, prev_cache, stream, ranks, state_dict>>

NextNorm == \E limit \in 0..MaxOccupy : CausalNormWrapper(limit)

SpecNorm == InitNorm /\ [][NextNorm]_vars

\* The chunked grouped-normalization path was taken.
ChunkedPath == pc = "done" /\ call.op = "causal_norm_wrapper" /\ result.path = "chunked"

\* The chunk of the channel axis that holds channel index i.
ChunkOf(i) == (i - 1) \div (Len(x.channels) \div result.num_chunks) + 1

\* The chunks partition the channels in order, every group inside one
\* chunk, each channel normalized over its own group of the unchunked
\* normalization and with its own affine parameters.
ChunksMatchUnchunked ==
    /\ result.ok /\ unsplit.ok
    /\ result.normalized = result.num_chunks
    /\ Len(result.out) = Len(x.channels)
    /\ \A i \in 1..Len(x.channels) :
          /\ result.out[i] = unsplit.out[i]
          /\ result.out[i].channel = x.channels[i]
          /\ \A j \in 1..Len(x.channels) :
                x.channels[j] \in result.out[i].over => ChunkOf(j) = ChunkOf(i)
          /\ result.out[i].weight = layer.weight[i]
          /\ result.out[i].bias = layer.bias[i]

GroupsDivide == layer.num_groups % result.num_chunks = 0

\* C13: whenever the chunked path is taken (the groups dividing evenly
\* into the chunks), every group lies inside one chunk, chunk i is
\* normalized with its share of the groups and its slice of the affine
\* parameters, and the output is that of the unchunked normalization.
C13_ChunkedEqualsUnchunked == (ChunkedPath /\ GroupsDivide) => ChunksMatchUnchunked

\* The chunked path departs from the unchunked normalization only on a
\* layer without affine parameters: with them, the outputs agree.
ChunkedEqualsUnchunked_Affine ==
    (ChunkedPath /\ GroupsDivide /\ layer.weight # None) => ChunksMatchUnchunked

\* C14: on the chunked path, when the groups do not divide evenly into the
\* chunks the call fails before any chunk is normalized, and yields
\* nothing (no fallback to the unchunked normalization or to another chunk
\* count).
C14_IndivisibleGroupsFail ==
    (ChunkedPath /\ ~GroupsDivide) =>
        /\ ~result.ok /\ result.out = <<>>
        /\ result.normalized = 0
        /\ result.num_chunks = num_chunks_of(layer, x)

\* Three groups in two chunks on an affine layer: the call fails.
C14_Witness ==
    /\ ChunkedPath /\ ~GroupsDivide /\ ~result.ok
    /\ layer.num_groups = 3 /\ result.num_chunks = 2 /\ layer.weight # None

---------------------------------------------------------------------------
(* Further properties of Spec.                                              *)

\* A forward call that got past its assertion.
Dispatched == Called /\ call.memory_state # UNSET

NoLimitNoTopology == isinf(call.before.memory_limit) /\ topology.group = NoGroupHandle

\* C15 (as claimed): the direct path is taken if and only if the memory
\* limit is infinite and no topology is active; otherwise the slicing path.
C15_DirectIffNoLimitNoTopology ==
    Dispatched =>
        /\ call.path \in {"basic", "slicing"}
        /\ call.path = "basic" <=> NoLimitNoTopology

\* C15 (amended): the direct path is taken if and only if the memory limit
\* is infinite, no topology is active and the input is a single tensor; a
\* list of tensors always takes the slicing path.  The direct path slices
\* nothing and sends and receives nothing.
C15_DirectIffNoLimitNoTopologyTensor ==
    Dispatched =>
        /\ call.path \in {"basic", "slicing"}
        /\ call.path = "basic" <=> (NoLimitNoTopology /\ call.input.is_tensor)
        /\ call.path = "basic" =>
              (call.slices = <<>> /\ call.chunks = <<>> /\ call.sends = <<>>
               /\ call.recvs = <<>>)

\* A list of tensors with no limit and no topology takes the slicing path.
C15_Witness ==
    /\ Dispatched /\ NoLimitNoTopology /\ ~call.input.is_tensor
    /\ call.path = "slicing" /\ call.ok /\ Len(call.slices) = 2

\* A forward call that returned with caching on: state INITIALIZING or
\* ACTIVE, eval mode, a memory device.
CachingCallReturned ==
    /\ Called /\ call.ok
    /\ call.memory_state \in {INITIALIZING, ACTIVE}
    /\ ~call.before.training
    /\ call.before.memory_device # NoDevice

RECURSIVE InputFrames(_, _)
InputFrames(items, i) ==
    IF i > Len(items) THEN <<>> ELSE items[i][1] \o InputFrames(items, i + 1)

\* The frames of the call's input behind what is prepended to it: the
\* stored memory on an ACTIVE call that has one, the duplicated first frame
\* otherwise.
ExtendedFrames ==
    (IF call.memory_state = ACTIVE /\ call.before.memory # None
     THEN call.before.memory[1]
     ELSE Duplicated(call.before, call.input))
    \o InputFrames(call.input.items, 1)

OverlapLen == Max(call.before.kernel_size[1] - call.before.stride[1], 0)

StoredCacheIsTrailingOverlap ==
    IF OverlapLen = 0 THEN layer.memory = None
    ELSE /\ layer.memory # None
         /\ layer.memory[1] = tail_slice(ExtendedFrames, OverlapLen)
         /\ layer.memory[2] = call.input.items[1][2]
         /\ layer.memory[3] = call.input.items[1][3]

\* C16: after a forward call that returns with caching on, the stored
\* memory is the trailing frames of the (cache-extended) input, as many as
\* the kernel / stride overlap clamped at zero; none when that is zero.
C16_StoredCacheIsTrailingOverlap == CachingCallReturned => StoredCacheIsTrailingOverlap

\* The stored memory departs from the trailing overlap only where the
\* temporal stride exceeds the kernel.
StoredCacheIsTrailingOverlap_KernelGeStride ==
    (CachingCallReturned /\ call.before.kernel_size[1] >= call.before.stride[1])
        => StoredCacheIsTrailingOverlap

\* The stored memory after lines 170-171 of the call: what the layer held
\* when the call reached its path.
MemoryAtDispatch == reset_memory(call.before, call.memory_state).memory

FailedCall == Called /\ call.memory_state # UNSET /\ ~call.ok

\* C17: a forward call that fails leaves the stored memory as it was when
\* the call went down its path: it stores no memory of its own.
C17_FailedCallStoresNoCache == FailedCall => layer.memory = MemoryAtDispatch

\* A failed call leaves a memory of its own only when it fails behind the
\* lines that store it (196, 237-251), with caching on; a call that fails
\* ahead of the slice loop and of every convolution stores nothing.
FailedCallStoresNoCache_AheadOfStore ==
    (FailedCall /\ \/ (call.calls = <<>> /\ call.slices = <<>>)
                   \/ ~stores_memory(call.before, call.memory_state))
        => layer.memory = MemoryAtDispatch

\* The padding every layer of Spec is constructed with: none along t (it
\* is kept aside as temporal_padding), the spatial padding as given.
ConstructedPadding == LayerOf(1, 1, 0).padding

\* The padding in force during a convolution: (0, 0, 0) for the manually
\* padded call under a finite limit, the layer's own otherwise.
PaddingDuring(c) == IF isinf(c.limit) THEN ConstructedPadding ELSE <<0, 0, 0>>

\* C20: whatever calls were made, returned or failed, the layer's padding
\* is the one fixed at construction; it is (0, 0, 0) only inside a manually
\* padded convolution.
C20_PaddingRestored ==
    /\ layer.padding = ConstructedPadding
    /\ Called => \A i \in 1..Len(call.calls) :
                     call.calls[i].padding = PaddingDuring(call.calls[i])

\* A forward call that failed inside a manually padded convolution, after
\* convolutions that returned.
C20_Witness ==
    /\ Called /\ ~call.ok
    /\ Len(call.calls) > 1
    /\ call.calls[Len(call.calls)].raised
    /\ call.calls[Len(call.calls)].padding = <<0, 0, 0>>
    /\ layer.padding = <<0, 1, 0>>

====
